---- MODULE Spec2Model ----
(***************************************************************************)
(* Configuration resolution of triboferrin.                                *)
(*                                                                         *)
(*   src/src/config.rs  Args, Config, their Debug renderings, and          *)
(*                      build_config / build_config_with_path              *)
(*   src/src/main.rs    the binary: its own Args and Config, its own       *)
(*                      figment chain, logging start-up and client wiring  *)
(*                                                                         *)
(* Strings are sequences of one-character strings, so that prefix          *)
(* stripping, case folding, number parsing, Debug escaping and substring   *)
(* search are computed rather than assumed.                                *)
(***************************************************************************)
EXTENDS Integers, Sequences, FiniteSets, TLC

VARIABLES
    args,       \* the parsed command line (Args)
    env,        \* the process environment: variable name -> Option<raw value>
    fs,         \* the file system: path -> file state
    pc,         \* position of the running program
    result,     \* Option<Result<Config, figment::Error>> of the resolution
    subject,    \* the value handed to the Debug formatter
    rendered,   \* Option<text> the formatter produced
    logging,    \* the process-wide tracing subscriber: [inits, filter]
    log,        \* the records that reached the log sink, oldest first
    client,     \* "none" | "http" | "built" | "started"
    exit        \* Option<Result<(), error text>> returned by main

vars == <<args, env, fs, pc, result, subject, rendered, logging, log, client, exit>>

(***************************************************************************)
(* Bounds of the explored inputs.                                          *)
(***************************************************************************)
\* at most this many values supplied at once by flags, variables and file keys
MaxSupplied == 4
\* longest secret token handed to the Debug formatter
MaxTokenLen == 2

(***************************************************************************)
(* String constants.                                                       *)
(***************************************************************************)
\* config.rs:10 / main.rs:14
\* CONFIG_FILE_TOML = "triboferrin-config.toml"
CONFIG_FILE_TOML ==
    <<"t", "r", "i", "b", "o", "f", "e", "r", "r", "i", "n", "-", "c", "o", "n", "f", "i", "g", ".", "t", "o", "m", "l">>

\* a path given with --config (config.rs:304)
\* CUSTOM_PATH = "custom_config.toml"
CUSTOM_PATH ==
    <<"c", "u", "s", "t", "o", "m", "_", "c", "o", "n", "f", "i", "g", ".", "t", "o", "m", "l">>

\* field names of Config and Args (config.rs:15-56, main.rs:18-61)
\* K_config = "config"
K_config ==
    <<"c", "o", "n", "f", "i", "g">>
\* K_log_level = "log_level"
K_log_level ==
    <<"l", "o", "g", "_", "l", "e", "v", "e", "l">>
\* K_discord_token = "discord_token"
K_discord_token ==
    <<"d", "i", "s", "c", "o", "r", "d", "_", "t", "o", "k", "e", "n">>
\* K_discord_api_url = "discord_api_url"
K_discord_api_url ==
    <<"d", "i", "s", "c", "o", "r", "d", "_", "a", "p", "i", "_", "u", "r", "l">>
\* K_host = "host"
K_host ==
    <<"h", "o", "s", "t">>
\* K_port = "port"
K_port ==
    <<"p", "o", "r", "t">>
\* K_verbose = "verbose"
K_verbose ==
    <<"v", "e", "r", "b", "o", "s", "e">>

\* environment variable names (config.rs:105-106)
\* PREFIX = "TRIBOFERRIN_"
PREFIX ==
    <<"T", "R", "I", "B", "O", "F", "E", "R", "R", "I", "N", "_">>
\* RUST_LOG = "RUST_LOG"
RUST_LOG ==
    <<"R", "U", "S", "T", "_", "L", "O", "G">>
\* ENV_LOG_LEVEL = "TRIBOFERRIN_LOG_LEVEL"
ENV_LOG_LEVEL ==
    <<"T", "R", "I", "B", "O", "F", "E", "R", "R", "I", "N", "_", "L", "O", "G", "_", "L", "E", "V", "E", "L">>
\* ENV_DISCORD_TOKEN = "TRIBOFERRIN_DISCORD_TOKEN"
ENV_DISCORD_TOKEN ==
    <<"T", "R", "I", "B", "O", "F", "E", "R", "R", "I", "N", "_", "D", "I", "S", "C", "O", "R", "D", "_", "T", "O", "K", "E", "N">>
\* ENV_DISCORD_API_URL = "TRIBOFERRIN_DISCORD_API_URL"
ENV_DISCORD_API_URL ==
    <<"T", "R", "I", "B", "O", "F", "E", "R", "R", "I", "N", "_", "D", "I", "S", "C", "O", "R", "D", "_", "A", "P", "I", "_", "U", "R", "L">>
\* ENV_PORT = "TRIBOFERRIN_PORT"
ENV_PORT ==
    <<"T", "R", "I", "B", "O", "F", "E", "R", "R", "I", "N", "_", "P", "O", "R", "T">>

\* values
\* S_empty = ""
S_empty ==
    <<>>
\* S_info = "info"
S_info ==
    <<"i", "n", "f", "o">>
\* S_trace = "trace"
S_trace ==
    <<"t", "r", "a", "c", "e">>
\* S_warn = "warn"
S_warn ==
    <<"w", "a", "r", "n">>
\* S_debug = "debug"
S_debug ==
    <<"d", "e", "b", "u", "g">>
\* S_error = "error"
S_error ==
    <<"e", "r", "r", "o", "r">>
\* S_file_token = "file_token"
S_file_token ==
    <<"f", "i", "l", "e", "_", "t", "o", "k", "e", "n">>
\* S_env_token = "env_token"
S_env_token ==
    <<"e", "n", "v", "_", "t", "o", "k", "e", "n">>
\* S_cli_token = "cli_token"
S_cli_token ==
    <<"c", "l", "i", "_", "t", "o", "k", "e", "n">>
\* S_custom_token = "custom_token"
S_custom_token ==
    <<"c", "u", "s", "t", "o", "m", "_", "t", "o", "k", "e", "n">>
\* S_file_url = "https://file.example.com"
S_file_url ==
    <<"h", "t", "t", "p", "s", ":", "/", "/", "f", "i", "l", "e", ".", "e", "x", "a", "m", "p", "l", "e", ".", "c", "o", "m">>
\* S_env_url = "https://env.example.com"
S_env_url ==
    <<"h", "t", "t", "p", "s", ":", "/", "/", "e", "n", "v", ".", "e", "x", "a", "m", "p", "l", "e", ".", "c", "o", "m">>
\* S_cli_url = "https://api.example.com"
S_cli_url ==
    <<"h", "t", "t", "p", "s", ":", "/", "/", "a", "p", "i", ".", "e", "x", "a", "m", "p", "l", "e", ".", "c", "o", "m">>
\* S_custom_url = "https://custom.example.com"
S_custom_url ==
    <<"h", "t", "t", "p", "s", ":", "/", "/", "c", "u", "s", "t", "o", "m", ".", "e", "x", "a", "m", "p", "l", "e", ".", "c", "o", "m">>
\* S_42 = "42"
S_42 ==
    <<"4", "2">>
\* S_localhost = "localhost"
S_localhost ==
    <<"l", "o", "c", "a", "l", "h", "o", "s", "t">>

\* text of the Debug renderings (config.rs:37-66)
\* T_Config = "Config"
T_Config ==
    <<"C", "o", "n", "f", "i", "g">>
\* T_Args = "Args"
T_Args ==
    <<"A", "r", "g", "s">>
\* REDACTED = "[REDACTED]"
REDACTED ==
    <<"[", "R", "E", "D", "A", "C", "T", "E", "D", "]">>
\* T_None = "None"
T_None ==
    <<"N", "o", "n", "e">>
\* T_Some = "Some("
T_Some ==
    <<"S", "o", "m", "e", "(">>
\* T_close = ")"
T_close ==
    <<")">>
\* T_open = " { "
T_open ==
    <<" ", "{", " ">>
\* T_colon = ": "
T_colon ==
    <<":", " ">>
\* T_comma = ", "
T_comma ==
    <<",", " ">>
\* T_end = " }"
T_end ==
    <<" ", "}">>
\* T_true = "true"
T_true ==
    <<"t", "r", "u", "e">>
\* T_false = "false"
T_false ==
    <<"f", "a", "l", "s", "e">>

\* text of main's log records and error (main.rs:118-146)
\* T_config_eq = "config = "
T_config_eq ==
    <<"c", "o", "n", "f", "i", "g", " ", "=", " ">>
\* T_custom_url = "Using custom Discord API URL: "
T_custom_url ==
    <<"U", "s", "i", "n", "g", " ", "c", "u", "s", "t", "o", "m", " ", "D", "i", "s", "c", "o", "r", "d", " ", "A", "P", "I", " ", "U", "R", "L", ":", " ">>
\* T_starting = "Starting Discord bot..."
T_starting ==
    <<"S", "t", "a", "r", "t", "i", "n", "g", " ", "D", "i", "s", "c", "o", "r", "d", " ", "b", "o", "t", ".", ".", ".">>
\* TOKEN_REQUIRED = "Discord token is required. Set TRIBOFERRIN_DISCORD_TOKEN or use --discord-token"
TOKEN_REQUIRED ==
    <<"D", "i", "s", "c", "o", "r", "d", " ", "t", "o", "k", "e", "n", " ", "i", "s", " ", "r", "e", "q", "u", "i", "r", "e", "d", ".", " ", "S", "e", "t", " ", "T", "R", "I", "B", "O", "F", "E", "R", "R", "I", "N", "_", "D", "I", "S", "C", "O", "R", "D", "_", "T", "O", "K", "E", "N", " ", "o", "r", " ", "u", "s", "e", " ", "-", "-", "d", "i", "s", "c", "o", "r", "d", "-", "t", "o", "k", "e", "n">>

(***************************************************************************)
(* Option, Result and figment's Value.                                     *)
(***************************************************************************)
None == [some |-> FALSE]
Some(x) == [some |-> TRUE, v |-> x]

Ok(x) == [ok |-> TRUE, val |-> x]
Err(e) == [ok |-> FALSE, err |-> e]

VStr(s) == [t |-> "string", s |-> s]
VNum(n) == [t |-> "num", n |-> n]
VBool(b) == [t |-> "bool", b |-> b]
VNone == [t |-> "empty"]

EmptyDict == [k \in {} |-> VNone]

(***************************************************************************)
(* Text helpers.                                                           *)
(***************************************************************************)
Upper ==
    <<"A", "B", "C", "D", "E", "F", "G", "H", "I", "J", "K", "L", "M",
      "N", "O", "P", "Q", "R", "S", "T", "U", "V", "W", "X", "Y", "Z">>
Lower ==
    <<"a", "b", "c", "d", "e", "f", "g", "h", "i", "j", "k", "l", "m",
      "n", "o", "p", "q", "r", "s", "t", "u", "v", "w", "x", "y", "z">>
Digits == <<"0", "1", "2", "3", "4", "5", "6", "7", "8", "9">>

\* char::to_ascii_lowercase
LowerOf ==
    [c \in {Upper[i] : i \in 1..Len(Upper)} |->
        Lower[CHOOSE i \in 1..Len(Upper) : Upper[i] = c]]
ToLowerChar(c) == IF c \in DOMAIN LowerOf THEN LowerOf[c] ELSE c
ToLower(s) == [i \in 1..Len(s) |-> ToLowerChar(s[i])]

StartsWithUncased(s, p) ==
    /\ Len(s) >= Len(p)
    /\ ToLower(SubSeq(s, 1, Len(p))) = ToLower(p)

\* needle occurs in hay as a contiguous run (str::contains)
Contains(hay, needle) ==
    \E i \in 1..(Len(hay) - Len(needle) + 1) :
        SubSeq(hay, i, i + Len(needle) - 1) = needle

DigitOf ==
    [c \in {Digits[i] : i \in 1..Len(Digits)} |->
        (CHOOSE i \in 1..Len(Digits) : Digits[i] = c) - 1]
IsDigit(c) == c \in DOMAIN DigitOf
DigitVal(c) == DigitOf[c]
IsUInt(s) == Len(s) > 0 /\ \A i \in 1..Len(s) : IsDigit(s[i])

RECURSIVE ParseUInt(_)
ParseUInt(s) ==
    IF Len(s) = 0 THEN 0
    ELSE 10 * ParseUInt(SubSeq(s, 1, Len(s) - 1)) + DigitVal(s[Len(s)])

RECURSIVE FormatUInt(_)
FormatUInt(n) ==
    IF n < 10 THEN <<Digits[n + 1]>>
    ELSE FormatUInt(n \div 10) \o <<Digits[(n % 10) + 1]>>

RECURSIVE Concat(_)
Concat(parts) ==
    IF Len(parts) = 0 THEN <<>> ELSE Head(parts) \o Concat(Tail(parts))

(***************************************************************************)
(* config.rs: the typed records.                                           *)
(***************************************************************************)
\* impl Default for Config
ConfigDefault ==
    [log_level |-> S_info, discord_token |-> S_empty, discord_api_url |-> None]

\* #[derive(Default)] for Args
ArgsDefault ==
    [config |-> None, log_level |-> None, discord_token |-> None,
     discord_api_url |-> None]

\* serde's view of an Option<String>
SerOption(o) == IF o.some THEN VStr(o.v) ELSE VNone

\* Serialize for Config: every field, under its own name
SerializeConfig(c) ==
    (K_log_level :> VStr(c.log_level))
        @@ (K_discord_token :> VStr(c.discord_token))
        @@ (K_discord_api_url :> SerOption(c.discord_api_url))

ArgsKeys == {K_config, K_log_level, K_discord_token, K_discord_api_url}
ArgsField(a, k) ==
    CASE k = K_config -> a.config
      [] k = K_log_level -> a.log_level
      [] k = K_discord_token -> a.discord_token
      [] k = K_discord_api_url -> a.discord_api_url

\* Serialize for Args without skip_serializing_if: None is written as a unit
SerializeArgsKeepNone(a) ==
    [k \in ArgsKeys |-> SerOption(ArgsField(a, k))]

\* Serialize for Args: #[serde(skip_serializing_if = "Option::is_none")] on every field
SerializeArgs(a) ==
    [k \in {x \in ArgsKeys : ArgsField(a, x).some} |-> VStr(ArgsField(a, k).v)]

(***************************************************************************)
(* The figment providers the chain merges.                                 *)
(***************************************************************************)
\* Serialized::defaults(value): never fails
SerializedDefaults(dict) == Ok(dict)

\* Toml::file(path).required(true): an absent file is an error too
TomlFileRequired(f, path) ==
    CASE f[path].kind = "missing" -> Err([kind |-> "not found", path |-> path])
      [] f[path].kind = "malformed" -> Err([kind |-> "parse", path |-> path])
      [] f[path].kind = "toml" -> Ok(f[path].dict)

\* Toml::file(path): an absent file is an empty source, a file that does
\* not parse is an error naming the path
TomlFile(f, path) ==
    CASE f[path].kind = "missing" -> Ok(EmptyDict)
      [] f[path].kind = "malformed" -> Err([kind |-> "parse", path |-> path])
      [] f[path].kind = "toml" -> Ok(f[path].dict)

\* the Value an environment variable's text parses to
EnvParse(raw) ==
    IF IsUInt(raw) THEN VNum(ParseUInt(raw))
    ELSE IF raw = T_true THEN VBool(TRUE)
    ELSE IF raw = T_false THEN VBool(FALSE)
    ELSE VStr(raw)

\* Env::prefixed(prefix): the variables carrying the prefix, the prefix
\* stripped and the rest lower-cased
EnvKey(name, prefix) == ToLower(SubSeq(name, Len(prefix) + 1, Len(name)))
EnvPrefixed(e, prefix) ==
    LET hits == {n \in DOMAIN e :
                    /\ e[n].some
                    /\ StartsWithUncased(n, prefix)
                    /\ Len(n) > Len(prefix)}
    IN  Ok([k \in {EnvKey(n, prefix) : n \in hits} |->
              EnvParse(e[CHOOSE n \in hits : EnvKey(n, prefix) = k].v)])

\* Env::raw().only(&[name]).map(|_| key): that one variable, under key
EnvOnlyMapped(e, name, key) ==
    LET hits == {n \in DOMAIN e : e[n].some /\ ToLower(n) = ToLower(name)}
    IN  Ok([k \in {key : n \in hits} |->
              EnvParse(e[CHOOSE n \in hits : TRUE].v)])

\* Figment::join in place of merge: keys the figment already holds are kept
MergeJoin(fig, provided) ==
    IF ~fig.ok THEN fig
    ELSE IF ~provided.ok THEN provided
    ELSE Ok([k \in (DOMAIN fig.val) \cup (DOMAIN provided.val) |->
               IF k \in DOMAIN fig.val THEN fig.val[k] ELSE provided.val[k]])

\* Figment::merge: a failed provider poisons the figment; otherwise every key
\* the provider holds replaces the figment's, every other key is kept
Merge(fig, provided) ==
    IF ~fig.ok THEN fig
    ELSE IF ~provided.ok THEN provided
    ELSE Ok([k \in (DOMAIN fig.val) \cup (DOMAIN provided.val) |->
               IF k \in DOMAIN provided.val THEN provided.val[k] ELSE fig.val[k]])

RECURSIVE MergeAll(_, _)
\* the figment after the first n providers of the chain
MergeAll(providers, n) ==
    IF n = 1 THEN providers[1]
    ELSE Merge(MergeAll(providers, n - 1), providers[n])

\* Deserialize: what a field of each kind accepts
TypeOk(kind, v) ==
    CASE kind = "String" -> v.t = "string"
      [] kind = "Option<String>" -> v.t \in {"string", "empty"}
      [] kind = "u16" -> v.t = "num" /\ v.n \in 0..65535

\* the first field extraction rejects; the dictionary is walked in key order,
\* fields it lacks are reported after the walk
FirstBad(schema, dict) ==
    LET wrong == {i \in 1..Len(schema) :
                    /\ schema[i].key \in DOMAIN dict
                    /\ ~TypeOk(schema[i].kind, dict[schema[i].key])}
        lacking == {i \in 1..Len(schema) :
                    /\ schema[i].key \notin DOMAIN dict
                    /\ schema[i].kind # "Option<String>"}
        least(S) == CHOOSE i \in S : \A j \in S : i <= j
    IN  IF wrong # {} THEN Some([kind |-> "invalid type", field |-> schema[least(wrong)].key])
        ELSE IF lacking # {} THEN Some([kind |-> "missing field", field |-> schema[least(lacking)].key])
        ELSE None

DeOption(dict, k) ==
    IF k \in DOMAIN dict /\ dict[k].t = "string" THEN Some(dict[k].s) ELSE None

\* Config's fields in the order the dictionary presents them
ConfigSchema ==
    <<[key |-> K_discord_api_url, kind |-> "Option<String>"],
      [key |-> K_discord_token, kind |-> "String"],
      [key |-> K_log_level, kind |-> "String"]>>

\* Figment::extract::<Config>()
Extract(fig) ==
    IF ~fig.ok THEN fig
    ELSE LET bad == FirstBad(ConfigSchema, fig.val)
         IN  IF bad.some THEN Err(bad.v)
             ELSE Ok([log_level |-> fig.val[K_log_level].s,
                      discord_token |-> fig.val[K_discord_token].s,
                      discord_api_url |-> DeOption(fig.val, K_discord_api_url)])

(***************************************************************************)
(* config.rs: build_config_with_path.                                      *)
(***************************************************************************)
\* the File source reading the default path whatever --config says
ConfigPathDefaultOnly(a, default_config_path) == default_config_path

\* the file the File source reads
ConfigPath(a, default_config_path) ==
    IF a.config.some THEN a.config.v ELSE default_config_path

\* the Args handed to the last provider: config is cleared, the rest cloned
CliView(a) ==
    [config |-> None, log_level |-> a.log_level,
     discord_token |-> a.discord_token, discord_api_url |-> a.discord_api_url]

\* the chain with RUST_LOG merged before the TRIBOFERRIN_* variables
ProvidersRustLogFirst(a, default_config_path, e, f) ==
    <<SerializedDefaults(SerializeConfig(ConfigDefault)),
      TomlFile(f, ConfigPath(a, default_config_path)),
      EnvOnlyMapped(e, RUST_LOG, K_log_level),
      EnvPrefixed(e, PREFIX),
      SerializedDefaults(SerializeArgs(CliView(a)))>>

\* the providers in the order they are merged
Providers(a, default_config_path, e, f) ==
    <<SerializedDefaults(SerializeConfig(ConfigDefault)),
      TomlFile(f, ConfigPath(a, default_config_path)),
      EnvPrefixed(e, PREFIX),
      EnvOnlyMapped(e, RUST_LOG, K_log_level),
      SerializedDefaults(SerializeArgs(CliView(a)))>>

build_config_with_path(a, default_config_path, e, f) ==
    LET providers == Providers(a, default_config_path, e, f)
    IN  Extract(MergeAll(providers, Len(providers)))

build_config(a, e, f) == build_config_with_path(a, CONFIG_FILE_TOML, e, f)

(***************************************************************************)
(* The inputs explored: what the command line, the environment and the     *)
(* two file locations may hold.                                            *)
(***************************************************************************)
Paths == {CONFIG_FILE_TOML, CUSTOM_PATH}
Fields == {K_log_level, K_discord_token, K_discord_api_url}
EnvNames == {ENV_LOG_LEVEL, ENV_DISCORD_TOKEN, ENV_DISCORD_API_URL, RUST_LOG}

Missing == [kind |-> "missing"]
Malformed == [kind |-> "malformed"]
TomlOf(dict) == [kind |-> "toml", dict |-> dict]

\* tables a file at each path may hold under each key: strings, and
\* integers where the schema wants a string
FileValues(path, k) ==
    IF path = CONFIG_FILE_TOML
    THEN CASE k = K_log_level -> {VStr(S_trace), VNum(42)}
           [] k = K_discord_token -> {VStr(S_file_token), VNum(42)}
           [] k = K_discord_api_url -> {VStr(S_file_url)}
    ELSE CASE k = K_log_level -> {VStr(S_info)}
           [] k = K_discord_token -> {VStr(S_custom_token)}
           [] k = K_discord_api_url -> {VStr(S_custom_url)}

FileDicts(path) ==
    UNION {{d \in [K -> UNION {FileValues(path, k) : k \in K}] :
              \A k \in K : d[k] \in FileValues(path, k)} : K \in SUBSET Fields}

FileStates(path) == {Missing, Malformed} \cup {TomlOf(d) : d \in FileDicts(path)}

\* raw text a variable may be set to
EnvValues(name) ==
    CASE name = ENV_LOG_LEVEL -> {S_warn, S_42}
      [] name = ENV_DISCORD_TOKEN -> {S_env_token}
      [] name = ENV_DISCORD_API_URL -> {S_env_url}
      [] name = RUST_LOG -> {S_debug, S_42}
      [] OTHER -> {}

OptionOf(S) == {None} \cup {Some(x) : x \in S}

ArgsSet ==
    [config : OptionOf({CUSTOM_PATH}),
     log_level : OptionOf({S_error}),
     discord_token : OptionOf({S_cli_token}),
     discord_api_url : OptionOf({S_cli_url})]

EnvSet ==
    {e \in [EnvNames -> OptionOf(UNION {EnvValues(n) : n \in EnvNames})] :
        \A n \in EnvNames : e[n].some => e[n].v \in EnvValues(n)}

FsSet ==
    {(CONFIG_FILE_TOML :> d) @@ (CUSTOM_PATH :> c) :
        d \in FileStates(CONFIG_FILE_TOML), c \in FileStates(CUSTOM_PATH)}

\* how many values an input supplies
SuppliedByArgs(a) == Cardinality({k \in Fields : ArgsField(a, k).some})
SuppliedByEnv(e) == Cardinality({n \in DOMAIN e : e[n].some})
SuppliedByFile(st) ==
    CASE st.kind = "missing" -> 0
      [] st.kind = "malformed" -> 1
      [] st.kind = "toml" -> Cardinality(DOMAIN st.dict)
SuppliedByFs(f) == SuppliedByFile(f[CONFIG_FILE_TOML]) + SuppliedByFile(f[CUSTOM_PATH])

\* the inputs, by how many values they supply
ArgsSupplying == [n \in 0..MaxSupplied |-> {a \in ArgsSet : SuppliedByArgs(a) = n}]
FsSupplying == [n \in 0..MaxSupplied |-> {f \in FsSet : SuppliedByFs(f) = n}]
EnvSupplyingUpTo == [n \in 0..MaxSupplied |-> {e \in EnvSet : SuppliedByEnv(e) <= n}]

(***************************************************************************)
(* Spec: one call of build_config on drawn inputs.                         *)
(***************************************************************************)
Idle ==
    /\ subject = None
    /\ rendered = None
    /\ logging = [inits |-> 0, filter |-> None]
    /\ log = <<>>
    /\ client = "none"
    /\ exit = None

Init ==
    /\ \E n \in 0..MaxSupplied, m \in 0..MaxSupplied :
          /\ n + m <= MaxSupplied
          /\ args \in ArgsSupplying[n]
          /\ fs \in FsSupplying[m]
          /\ env \in EnvSupplyingUpTo[MaxSupplied - n - m]
    /\ pc = "call"
    /\ result = None
    /\ Idle

\* let config = build_config(&args);
BuildConfig ==
    /\ pc = "call"
    /\ result' = Some(build_config(args, env, fs))
    /\ pc' = "returned"
    /\ UNCHANGED <<args, env, fs, subject, rendered, logging, log, client, exit>>

Next == BuildConfig

Spec == Init /\ [][Next]_vars

(***************************************************************************)
(* What each source supplies, read off the inputs themselves.              *)
(***************************************************************************)
Returned == pc = "returned" /\ result.some
Resolved == Returned /\ result.v.ok

SelectedPath == IF args.config.some THEN args.config.v ELSE CONFIG_FILE_TOML
OtherPath == IF SelectedPath = CONFIG_FILE_TOML THEN CUSTOM_PATH ELSE CONFIG_FILE_TOML
SelectedFile == fs[SelectedPath]

EnvVarOf(k) ==
    CASE k = K_log_level -> ENV_LOG_LEVEL
      [] k = K_discord_token -> ENV_DISCORD_TOKEN
      [] k = K_discord_api_url -> ENV_DISCORD_API_URL

\* the ranked sources: 1 Defaults, 2 File, 3 TRIBOFERRIN_*, 4 RUST_LOG, 5 CLI
Sources == 1..5
SourceSupplies(s, k) ==
    CASE s = 1 -> TRUE
      [] s = 2 -> SelectedFile.kind = "toml" /\ k \in DOMAIN SelectedFile.dict
      [] s = 3 -> env[EnvVarOf(k)].some
      [] s = 4 -> k = K_log_level /\ env[RUST_LOG].some
      [] s = 5 -> ArgsField(args, k).some

\* text read from the environment, as the Value it stands for
TextValue(raw) ==
    IF IsUInt(raw) THEN VNum(ParseUInt(raw)) ELSE VStr(raw)

SourceValue(s, k) ==
    CASE s = 1 -> IF k = K_log_level THEN VStr(S_info)
                  ELSE IF k = K_discord_token THEN VStr(S_empty) ELSE VNone
      [] s = 2 -> SelectedFile.dict[k]
      [] s = 3 -> TextValue(env[EnvVarOf(k)].v)
      [] s = 4 -> TextValue(env[RUST_LOG].v)
      [] s = 5 -> VStr(ArgsField(args, k).v)

Winner(k) == CHOOSE s \in Sources :
    /\ SourceSupplies(s, k)
    /\ \A t \in Sources : SourceSupplies(t, k) => t <= s

\* a field of the resolved Config, as a Value
ResolvedValue(k) ==
    CASE k = K_log_level -> VStr(result.v.val.log_level)
      [] k = K_discord_token -> VStr(result.v.val.discord_token)
      [] k = K_discord_api_url -> SerOption(result.v.val.discord_api_url)

WellTyped(k, v) ==
    IF k = K_discord_api_url THEN v.t \in {"string", "empty"} ELSE v.t = "string"

AllSuppliedWellTyped ==
    /\ SelectedFile.kind # "malformed"
    /\ \A k \in Fields : \A s \in Sources :
          SourceSupplies(s, k) => WellTyped(k, SourceValue(s, k))

\* C1: every field of the result holds the value of the highest-ranked source
\* that supplies it (Defaults < File < TRIBOFERRIN_* < RUST_LOG < CLI), and
\* resolution succeeds whenever every supplied value is well-typed.
PrecedenceHolds ==
    Returned =>
        /\ AllSuppliedWellTyped => result.v.ok
        /\ result.v.ok => \A k \in Fields : ResolvedValue(k) = SourceValue(Winner(k), k)

\* C1 witness: log_level is set by the file, TRIBOFERRIN_LOG_LEVEL, RUST_LOG and
\* --log-level at once, and the flag's value is the result.
PrecedenceWitness ==
    /\ Resolved
    /\ \A s \in Sources : SourceSupplies(s, K_log_level)
    /\ SourceValue(2, K_log_level) # SourceValue(5, K_log_level)
    /\ result.v.val.log_level = args.log_level.v

\* C2: with TRIBOFERRIN_LOG_LEVEL and RUST_LOG both set and no --log-level, the
\* result's log_level is RUST_LOG's value; and whatever RUST_LOG is changed to,
\* discord_token and discord_api_url of the result stay what they are.
RustLogOnlyLogLevel ==
    Resolved =>
        /\ (env[ENV_LOG_LEVEL].some /\ env[RUST_LOG].some /\ ~args.log_level.some)
              => result.v.val.log_level = env[RUST_LOG].v
        /\ \A r \in OptionOf(EnvValues(RUST_LOG)) :
              LET other == build_config(args, [env EXCEPT ![RUST_LOG] = r], fs)
              IN  other.ok =>
                    /\ other.val.discord_token = result.v.val.discord_token
                    /\ other.val.discord_api_url = result.v.val.discord_api_url

\* C2 witness: both variables set to different values, no --log-level, a token
\* supplied, and RUST_LOG's value resolved.
RustLogWitness ==
    /\ Resolved
    /\ env[ENV_LOG_LEVEL].some /\ env[RUST_LOG].some /\ ~args.log_level.some
    /\ env[ENV_LOG_LEVEL].v # env[RUST_LOG].v
    /\ result.v.val.log_level = env[RUST_LOG].v
    /\ result.v.val.discord_token # S_empty

\* the value accumulated for field k once the first n providers are merged
Accumulated(n, k) ==
    MergeAll(Providers(args, CONFIG_FILE_TOML, env, fs), n).val[k]

\* C3: a source that does not supply a field leaves the value accumulated from
\* the lower-ranked sources as it is, whatever else that source supplies; a
\* field no source supplies resolves to its default, and discord_api_url is
\* None then, never Some("").
AbsenceTransparent ==
    Returned =>
        /\ SelectedFile.kind # "malformed" =>
              \A s \in 2..5 : \A k \in Fields :
                  ~SourceSupplies(s, k) => Accumulated(s, k) = Accumulated(s - 1, k)
        /\ result.v.ok =>
              \A k \in Fields :
                  (\A s \in 2..5 : ~SourceSupplies(s, k)) =>
                      /\ k = K_log_level => result.v.val.log_level = S_info
                      /\ k = K_discord_token => result.v.val.discord_token = S_empty
                      /\ k = K_discord_api_url => result.v.val.discord_api_url = None
        /\ result.v.ok => result.v.val.discord_api_url # Some(S_empty)

\* C3 witness: the command line gives --log-level only; the token set in the
\* environment and the URL set in the file survive it.
AbsenceWitness ==
    /\ Resolved
    /\ args.log_level.some /\ ~args.discord_token.some /\ ~args.discord_api_url.some
    /\ env[ENV_DISCORD_TOKEN].some
    /\ result.v.val.discord_token = env[ENV_DISCORD_TOKEN].v
    /\ SourceSupplies(2, K_discord_api_url)
    /\ result.v.val.discord_api_url = Some(SelectedFile.dict[K_discord_api_url].s)

\* Defaults, both environment layers and the command line, with no File source
ResolveWithoutFile ==
    Extract(MergeAll(<<SerializedDefaults(SerializeConfig(ConfigDefault)),
                       EnvPrefixed(env, PREFIX),
                       EnvOnlyMapped(env, RUST_LOG, K_log_level),
                       SerializedDefaults(SerializeArgs(CliView(args)))>>, 4))

\* C4 as stated: against a path where no file exists, resolution succeeds and
\* returns what merging Defaults, both environment layers and CLI alone
\* returns, for every environment and every command line.
MissingFileSucceeds ==
    (Returned /\ SelectedFile.kind = "missing") =>
        /\ result.v.ok
        /\ result.v = ResolveWithoutFile

\* C4 as amended: against a path where no file exists, resolution returns
\* what merging Defaults, both environment layers and CLI alone returns, the
\* same Config or the same error; it succeeds whenever every value the
\* environment and the command line supply is well-typed.
MissingFileTransparent ==
    (Returned /\ SelectedFile.kind = "missing") =>
        /\ result.v = ResolveWithoutFile
        /\ AllSuppliedWellTyped => result.v.ok

\* C4 witness: --config names a path where no file exists, the default path
\* holds a token, and resolution succeeds with the environment's token.
MissingFileWitness ==
    /\ Resolved
    /\ args.config.some /\ SelectedFile.kind = "missing"
    /\ fs[CONFIG_FILE_TOML].kind = "toml"
    /\ K_discord_token \in DOMAIN fs[CONFIG_FILE_TOML].dict
    /\ env[ENV_DISCORD_TOKEN].some
    /\ result.v.val.discord_token = env[ENV_DISCORD_TOKEN].v
    /\ result.v = ResolveWithoutFile

\* a field the selected file holds with a value of the wrong type
FileIllTyped(k) ==
    /\ SelectedFile.kind = "toml"
    /\ k \in DOMAIN SelectedFile.dict
    /\ ~WellTyped(k, SelectedFile.dict[k])

\* C6: a file that does not parse, or that holds a value of the wrong type for
\* a field, makes resolution fail with an error naming the file or the field,
\* whatever the environment and the command line supply.
MalformedFileNeverMasked ==
    Returned =>
        /\ SelectedFile.kind = "malformed" =>
              ~result.v.ok /\ result.v.err = [kind |-> "parse", path |-> SelectedPath]
        /\ \A k \in Fields : FileIllTyped(k) => ~result.v.ok

\* the --config that selects the other path
OptionOfOtherPath == IF OtherPath = CONFIG_FILE_TOML THEN None ELSE Some(OtherPath)

\* stand-ins for the file at the path that is not selected
OtherFiles == {Missing, Malformed, TomlOf(SerializeConfig(ConfigDefault))}

\* C8: the file at the path not selected cannot influence the result: with
\* --config the default path, without it any other path; and the path given
\* with --config is no part of the command line's view.
OneFileLocation ==
    Returned =>
        /\ \A other \in OtherFiles :
              build_config(args, env, [fs EXCEPT ![OtherPath] = other]) = result.v
        /\ K_config \notin DOMAIN SerializeArgs(CliView(args))
        /\ LET moved == build_config([args EXCEPT !.config = OptionOfOtherPath], env,
                                      [q \in Paths |-> SelectedFile])
           IN  /\ moved.ok = result.v.ok
               /\ moved.ok => moved.val = result.v.val

\* C8 witness: --config names a file that sets the token, the default path
\* holds another token, and the resolved token is the named file's.
OneFileWitness ==
    /\ Resolved
    /\ args.config = Some(CUSTOM_PATH)
    /\ fs[CUSTOM_PATH].kind = "toml" /\ K_discord_token \in DOMAIN fs[CUSTOM_PATH].dict
    /\ fs[CONFIG_FILE_TOML].kind = "toml" /\ K_discord_token \in DOMAIN fs[CONFIG_FILE_TOML].dict
    /\ result.v.val.discord_token = fs[CUSTOM_PATH].dict[K_discord_token].s
    /\ result.v.val.discord_token # S_empty

(***************************************************************************)
(* config.rs: the Debug renderings of Args and Config.                     *)
(***************************************************************************)
\* <str as Debug>::fmt: quoted, with quote and backslash escaped
EscapeDebug(s) ==
    Concat([i \in 1..Len(s) |->
              IF s[i] = "\"" THEN <<"\\", "\"">>
              ELSE IF s[i] = "\\" THEN <<"\\", "\\">>
              ELSE <<s[i]>>])
DebugStr(s) == <<"\"">> \o EscapeDebug(s) \o <<"\"">>

\* <Option<T> as Debug>::fmt over an already rendered payload
DebugOption(o) == IF o.some THEN T_Some \o o.v \o T_close ELSE T_None
DebugOptionStr(o) == DebugOption(IF o.some THEN Some(DebugStr(o.v)) ELSE None)

\* Formatter::debug_struct(name).field(..)...finish()
DebugStruct(name, fields) ==
    name \o Concat([i \in 1..Len(fields) |->
                      (IF i = 1 THEN T_open ELSE T_comma)
                          \o fields[i][1] \o T_colon \o fields[i][2]])
         \o (IF Len(fields) > 0 THEN T_end ELSE <<>>)

\* impl Debug for Args
DebugArgs(a) ==
    DebugStruct(T_Args,
        <<<<K_config, DebugOptionStr(a.config)>>,
          <<K_log_level, DebugOptionStr(a.log_level)>>,
          <<K_discord_token,
            DebugOptionStr(IF a.discord_token.some THEN Some(REDACTED) ELSE None)>>,
          <<K_discord_api_url, DebugOptionStr(a.discord_api_url)>>>>)

\* a Debug for Config that renders the token like any other field
DebugConfigDerived(c) ==
    DebugStruct(T_Config,
        <<<<K_log_level, DebugStr(c.log_level)>>,
          <<K_discord_token, DebugStr(c.discord_token)>>,
          <<K_discord_api_url, DebugOptionStr(c.discord_api_url)>>>>)

\* impl Debug for Config
DebugConfig(c) ==
    DebugStruct(T_Config,
        <<<<K_log_level, DebugStr(c.log_level)>>,
          <<K_discord_token, DebugStr(REDACTED)>>,
          <<K_discord_api_url, DebugOptionStr(c.discord_api_url)>>>>)

(***************************************************************************)
(* SpecDebug: format!("{:?}", value) on drawn Config and Args values.      *)
(***************************************************************************)
\* characters a drawn token is made of: one that occurs in the field names,
\* one that occurs nowhere else, and the quote
TokenAlphabet == {"e", "x", "\""}

RECURSIVE StringsUpTo(_, _)
StringsUpTo(alphabet, n) ==
    IF n = 0 THEN {<<>>}
    ELSE LET shorter == StringsUpTo(alphabet, n - 1)
         IN  shorter \cup {Append(s, c) : s \in shorter, c \in alphabet}

TokenStrings == StringsUpTo(TokenAlphabet, MaxTokenLen)
LevelStrings == {S_info, S_debug, <<"x">>, <<"a", "\"", "b">>}
UrlStrings == {S_cli_url, S_empty}

DebugSubjects ==
    {[type |-> "Config", val |-> c] :
        c \in [log_level : LevelStrings, discord_token : TokenStrings,
               discord_api_url : OptionOf(UrlStrings)]}
    \cup
    {[type |-> "Args", val |-> a] :
        a \in [config : OptionOf({CUSTOM_PATH}), log_level : OptionOf(LevelStrings),
               discord_token : OptionOf(TokenStrings),
               discord_api_url : OptionOf(UrlStrings)]}

InitDebug ==
    /\ subject \in {Some(s) : s \in DebugSubjects}
    /\ rendered = None
    /\ pc = "format"
    /\ args = ArgsDefault
    /\ env = [n \in EnvNames |-> None]
    /\ fs = [p \in Paths |-> Missing]
    /\ result = None
    /\ logging = [inits |-> 0, filter |-> None]
    /\ log = <<>>
    /\ client = "none"
    /\ exit = None

\* format!("{:?}", config)
FormatConfig ==
    /\ pc = "format"
    /\ subject.v.type = "Config"
    /\ rendered' = Some(DebugConfig(subject.v.val))
    /\ pc' = "formatted"
    /\ UNCHANGED <<args, env, fs, result, subject, logging, log, client, exit>>

\* format!("{:?}", args)
FormatArgs ==
    /\ pc = "format"
    /\ subject.v.type = "Args"
    /\ rendered' = Some(DebugArgs(subject.v.val))
    /\ pc' = "formatted"
    /\ UNCHANGED <<args, env, fs, result, subject, logging, log, client, exit>>

NextDebug == FormatConfig \/ FormatArgs

SpecDebug == InitDebug /\ [][NextDebug]_vars

Formatted == pc = "formatted" /\ rendered.some

\* the token of the formatted value, if it has one
SubjectToken ==
    IF subject.v.type = "Config" THEN Some(subject.v.val.discord_token)
    ELSE subject.v.val.discord_token

\* the rendering of the formatted value with its token replaced by t
RenderedWithToken(t) ==
    IF subject.v.type = "Config"
    THEN DebugConfig([subject.v.val EXCEPT !.discord_token = t])
    ELSE DebugArgs([subject.v.val EXCEPT !.discord_token = Some(t)])

\* every field but the token, in its own Debug form
OthersInDebugForm ==
    IF subject.v.type = "Config"
    THEN /\ Contains(rendered.v, K_log_level \o T_colon \o DebugStr(subject.v.val.log_level))
         /\ Contains(rendered.v, K_discord_api_url \o T_colon
                                    \o DebugOptionStr(subject.v.val.discord_api_url))
    ELSE /\ Contains(rendered.v, K_config \o T_colon \o DebugOptionStr(subject.v.val.config))
         /\ Contains(rendered.v, K_log_level \o T_colon
                                    \o DebugOptionStr(subject.v.val.log_level))
         /\ Contains(rendered.v, K_discord_api_url \o T_colon
                                    \o DebugOptionStr(subject.v.val.discord_api_url))

\* C5 as stated: with a non-empty token, whatever the other fields hold, the
\* rendering does not contain the token's text anywhere, contains the marker,
\* and shows the other fields.
TokenTextNowhere ==
    (Formatted /\ SubjectToken.some /\ SubjectToken.v # S_empty) =>
        /\ ~Contains(rendered.v, SubjectToken.v)
        /\ Contains(rendered.v, REDACTED)
        /\ OthersInDebugForm

\* C5 as amended: with a non-empty token the discord_token field shows the
\* marker, the rendering is the same whatever the token is, and the other
\* fields are shown in their Debug form; so the token's text occurs in the
\* rendering only where the rest of the rendering happens to contain it.
TokenRedacted ==
    (Formatted /\ SubjectToken.some /\ SubjectToken.v # S_empty) =>
        /\ Contains(rendered.v,
                    K_discord_token \o T_colon
                        \o (IF subject.v.type = "Config" THEN DebugStr(REDACTED)
                            ELSE DebugOptionStr(Some(REDACTED))))
        /\ \A t \in TokenStrings : RenderedWithToken(t) = rendered.v
        /\ ~Contains(RenderedWithToken(S_empty), SubjectToken.v)
              => ~Contains(rendered.v, SubjectToken.v)
        /\ OthersInDebugForm

\* C5 witness: a Config with a non-empty token is formatted; the marker is in
\* the rendering and the token's text is not.
TokenRedactedWitness ==
    /\ Formatted
    /\ subject.v.type = "Config"
    /\ Len(subject.v.val.discord_token) = MaxTokenLen
    /\ Contains(rendered.v, REDACTED)
    /\ ~Contains(rendered.v, subject.v.val.discord_token)

(***************************************************************************)
(* main.rs: the binary's own Args and Config, its figment chain and its    *)
(* start-up sequence.                                                      *)
(***************************************************************************)
DEFAULT_PORT == 8080

\* impl Default for Config (main.rs)
MainConfigDefault ==
    [host |-> S_localhost, port |-> DEFAULT_PORT, log_level |-> S_info,
     discord_token |-> S_empty, discord_api_url |-> None]

\* Serialize for main.rs's Config
SerializeMainConfig(c) ==
    (K_host :> VStr(c.host))
        @@ (K_port :> VNum(c.port))
        @@ (K_log_level :> VStr(c.log_level))
        @@ (K_discord_token :> VStr(c.discord_token))
        @@ (K_discord_api_url :> SerOption(c.discord_api_url))

MainOptionalKeys ==
    {K_config, K_host, K_port, K_log_level, K_discord_token, K_discord_api_url}
MainArgsField(a, k) ==
    CASE k = K_config -> a.config
      [] k = K_host -> a.host
      [] k = K_port -> a.port
      [] k = K_log_level -> a.log_level
      [] k = K_discord_token -> a.discord_token
      [] k = K_discord_api_url -> a.discord_api_url

\* Serialize for main.rs's Args: the Options are skipped when None, verbose
\* is always written
SerializeMainArgs(a) ==
    [k \in {x \in MainOptionalKeys : MainArgsField(a, x).some} \cup {K_verbose} |->
        IF k = K_verbose THEN VBool(a.verbose)
        ELSE IF k = K_port THEN VNum(a.port.v)
        ELSE VStr(MainArgsField(a, k).v)]

\* main.rs's Config, its fields in the order the dictionary presents them
MainConfigSchema ==
    <<[key |-> K_discord_api_url, kind |-> "Option<String>"],
      [key |-> K_discord_token, kind |-> "String"],
      [key |-> K_host, kind |-> "String"],
      [key |-> K_log_level, kind |-> "String"],
      [key |-> K_port, kind |-> "u16"]>>

\* figment.extract::<Config>() in main
MainExtract(fig) ==
    IF ~fig.ok THEN fig
    ELSE LET bad == FirstBad(MainConfigSchema, fig.val)
         IN  IF bad.some THEN Err(bad.v)
             ELSE Ok([host |-> fig.val[K_host].s,
                      port |-> fig.val[K_port].n,
                      log_level |-> fig.val[K_log_level].s,
                      discord_token |-> fig.val[K_discord_token].s,
                      discord_api_url |-> DeOption(fig.val, K_discord_api_url)])

\* the chain main merges: Defaults, the file, TRIBOFERRIN_*, the command line
MainProviders(a, e, f) ==
    <<SerializedDefaults(SerializeMainConfig(MainConfigDefault)),
      TomlFile(f, ConfigPath(a, CONFIG_FILE_TOML)),
      EnvPrefixed(e, PREFIX),
      SerializedDefaults(SerializeMainArgs([a EXCEPT !.config = None]))>>

MainResolve(a, e, f) ==
    LET providers == MainProviders(a, e, f)
    IN  MainExtract(MergeAll(providers, Len(providers)))

\* #[derive(Debug)] on main.rs's Config: every field as it is
DebugMainConfig(c) ==
    DebugStruct(T_Config,
        <<<<K_host, DebugStr(c.host)>>,
          <<K_port, FormatUInt(c.port)>>,
          <<K_log_level, DebugStr(c.log_level)>>,
          <<K_discord_token, DebugStr(c.discord_token)>>,
          <<K_discord_api_url, DebugOptionStr(c.discord_api_url)>>>>)

\* the most verbose level a filter made of one level name lets through
\* (error 1 .. trace 5); any other directive names a target, not this crate
MaxLevel(filter) ==
    LET f == ToLower(filter)
    IN  CASE f = S_error -> 1
          [] f = S_warn -> 2
          [] f = S_info -> 3
          [] f = S_debug -> 4
          [] f = S_trace -> 5
          [] OTHER -> 0
INFO == 3

\* EnvFilter::try_from_default_env().unwrap_or_else(|_| EnvFilter::new("info"))
DefaultEnvFilter(e) ==
    IF e[RUST_LOG].some THEN e[RUST_LOG].v ELSE S_info

\* tracing::info!(..): the record reaches the sink when a subscriber is
\* installed and its filter lets INFO through
Emitted(lg, sink, msg) ==
    IF lg.inits > 0 /\ lg.filter.some /\ MaxLevel(lg.filter.v) >= INFO
    THEN Append(sink, [level |-> INFO, msg |-> msg])
    ELSE sink

(***************************************************************************)
(* SpecMain: one run of main on drawn inputs.                              *)
(***************************************************************************)
MainEnvNames == EnvNames \cup {ENV_PORT}

MainEnvValues(name) ==
    CASE name = ENV_LOG_LEVEL -> {S_warn}
      [] name = ENV_DISCORD_TOKEN -> {S_env_token}
      [] name = ENV_DISCORD_API_URL -> {}
      [] name = ENV_PORT -> {S_42, S_warn}
      [] name = RUST_LOG -> {S_warn, S_debug}

MainEnvSet ==
    {e \in [MainEnvNames -> OptionOf(UNION {MainEnvValues(n) : n \in MainEnvNames})] :
        \A n \in MainEnvNames : e[n].some => e[n].v \in MainEnvValues(n)}

MainArgsSet ==
    [config : OptionOf({CUSTOM_PATH}),
     host : {None},
     port : {None},
     log_level : OptionOf({S_error}),
     verbose : BOOLEAN,
     discord_token : OptionOf({S_cli_token, S_empty}),
     discord_api_url : OptionOf({S_cli_url})]

MainFileValues(path, k) ==
    IF path = CONFIG_FILE_TOML
    THEN CASE k = K_log_level -> {}
           [] k = K_discord_token -> {VStr(S_file_token), VStr(S_empty)}
           [] k = K_discord_api_url -> {}
    ELSE CASE k = K_log_level -> {}
           [] k = K_discord_token -> {VStr(S_custom_token)}
           [] k = K_discord_api_url -> {}

MainFileStates(path) ==
    (IF path = CONFIG_FILE_TOML THEN {Missing, Malformed} ELSE {Missing})
        \cup {TomlOf(d) : d \in
                UNION {{d \in [K -> UNION {MainFileValues(path, k) : k \in K}] :
                          \A k \in K : d[k] \in MainFileValues(path, k)} :
                       K \in SUBSET Fields \ {{}}}}

MainFsSet ==
    {(CONFIG_FILE_TOML :> d) @@ (CUSTOM_PATH :> c) :
        d \in MainFileStates(CONFIG_FILE_TOML), c \in MainFileStates(CUSTOM_PATH)}

SuppliedByMainArgs(a) ==
    Cardinality({k \in MainOptionalKeys \ {K_config} : MainArgsField(a, k).some})

InitMain ==
    /\ args \in MainArgsSet
    /\ fs \in MainFsSet
    /\ SuppliedByMainArgs(args) + SuppliedByFs(fs) <= MaxSupplied
    /\ env \in MainEnvSet
    /\ SuppliedByMainArgs(args) + SuppliedByFs(fs) + SuppliedByEnv(env) <= MaxSupplied
    /\ pc = "init_logging"
    /\ result = None
    /\ subject = None
    /\ rendered = None
    /\ logging = [inits |-> 0, filter |-> None]
    /\ log = <<>>
    /\ client = "none"
    /\ exit = None

\* tracing_subscriber::fmt()...with_env_filter(..).init();
InitLogging ==
    /\ pc = "init_logging"
    /\ logging' = [inits |-> logging.inits + 1, filter |-> Some(DefaultEnvFilter(env))]
    /\ pc' = "resolve"
    /\ UNCHANGED <<args, env, fs, result, subject, rendered, log, client, exit>>

\* let args = Args::parse(); ... let config: Config = figment.extract()?;
Resolve ==
    /\ pc = "resolve"
    /\ LET r == MainResolve(args, env, fs)
       IN  /\ result' = Some(r)
           /\ IF r.ok
              THEN pc' = "log_config" /\ exit' = exit
              ELSE pc' = "exit" /\ exit' = Some(Err([kind |-> "figment", cause |-> r.err]))
    /\ UNCHANGED <<args, env, fs, subject, rendered, logging, log, client>>

\* tracing::info!("config = {:?}", config);
LogConfig ==
    /\ pc = "log_config"
    /\ log' = Emitted(logging, log, T_config_eq \o DebugMainConfig(result.v.val))
    /\ pc' = "check_token"
    /\ UNCHANGED <<args, env, fs, result, subject, rendered, logging, client, exit>>

\* the token check skipped: main goes on to build the clients whatever the token is
CheckTokenSkipped ==
    /\ pc = "check_token"
    /\ pc' = "build_http"
    /\ UNCHANGED <<args, env, fs, result, subject, rendered, logging, log, client, exit>>

\* if config.discord_token.is_empty() { return Err(..) }
CheckToken ==
    /\ pc = "check_token"
    /\ IF result.v.val.discord_token = S_empty
       THEN pc' = "exit" /\ exit' = Some(Err([kind |-> "message", text |-> TOKEN_REQUIRED]))
       ELSE pc' = "build_http" /\ exit' = exit
    /\ UNCHANGED <<args, env, fs, result, subject, rendered, logging, log, client>>

\* let http = if let Some(ref api_url) = config.discord_api_url { .. } else { .. };
BuildHttp ==
    /\ pc = "build_http"
    /\ log' = IF result.v.val.discord_api_url.some
              THEN Emitted(logging, log, T_custom_url \o result.v.val.discord_api_url.v)
              ELSE log
    /\ client' = "http"
    /\ pc' = "build_client"
    /\ UNCHANGED <<args, env, fs, result, subject, rendered, logging, exit>>

\* ClientBuilder::new_with_http(http, intents)...await?
BuildClient ==
    /\ pc = "build_client"
    /\ \/ client' = "built" /\ pc' = "start" /\ exit' = exit
       \/ client' = client /\ pc' = "exit"
            /\ exit' = Some(Err([kind |-> "serenity", text |-> <<>>]))
    /\ UNCHANGED <<args, env, fs, result, subject, rendered, logging, log>>

\* tracing::info!("Starting Discord bot..."); client.start()
StartClient ==
    /\ pc = "start"
    /\ log' = Emitted(logging, log, T_starting)
    /\ client' = "started"
    /\ pc' = "running"
    /\ UNCHANGED <<args, env, fs, result, subject, rendered, logging, exit>>

\* client.start().await?; Ok(())
ClientReturns ==
    /\ pc = "running"
    /\ \/ exit' = Some(Ok(<<>>))
       \/ exit' = Some(Err([kind |-> "serenity", text |-> <<>>]))
    /\ pc' = "exit"
    /\ UNCHANGED <<args, env, fs, result, subject, rendered, logging, log, client>>

NextMain ==
    \/ InitLogging
    \/ Resolve
    \/ LogConfig
    \/ CheckToken
    \/ BuildHttp
    \/ BuildClient
    \/ StartClient
    \/ ClientReturns

SpecMain == InitMain /\ [][NextMain]_vars

(***************************************************************************)
(* What the sources of main supply for the token, read off the inputs.     *)
(***************************************************************************)
MainResolved == result.some /\ result.v.ok

\* the token values the sources supply, lowest rank first
SuppliedTokens ==
    (IF SelectedFile.kind = "toml" /\ K_discord_token \in DOMAIN SelectedFile.dict
        THEN <<SelectedFile.dict[K_discord_token]>> ELSE <<>>)
    \o (IF env[ENV_DISCORD_TOKEN].some
        THEN <<TextValue(env[ENV_DISCORD_TOKEN].v)>> ELSE <<>>)
    \o (IF args.discord_token.some THEN <<VStr(args.discord_token.v)>> ELSE <<>>)

\* no source supplies a token, or the highest-ranked one supplies ""
TokenWinnerEmpty ==
    Len(SuppliedTokens) = 0 \/ SuppliedTokens[Len(SuppliedTokens)] = VStr(S_empty)

PastTokenCheck == pc \in {"build_http", "build_client", "start", "running", "exit"}

\* C7: every record that reaches the log sink shows the marker in place of
\* the token, so the resolved token's text is in no record.
LogNeverShowsToken ==
    (MainResolved /\ result.v.val.discord_token # S_empty) =>
        \A i \in 1..Len(log) :
            /\ ~Contains(log[i].msg, result.v.val.discord_token)
            /\ Contains(log[i].msg, T_config_eq) => Contains(log[i].msg, REDACTED)

\* C9: an absent or empty winning token does not make resolution fail, it
\* resolves to ""; main then returns the fixed token-required error, which
\* holds no supplied token, with no client built; a client exists only while
\* the resolved token is non-empty.
TokenCheckedBeforeClients ==
    /\ (result.some /\ TokenWinnerEmpty) =>
          IF result.v.ok THEN result.v.val.discord_token = S_empty
          ELSE result.v.err.kind = "parse" \/ result.v.err.field # K_discord_token
    /\ (MainResolved /\ result.v.val.discord_token = S_empty /\ PastTokenCheck) =>
          /\ pc = "exit"
          /\ exit = Some(Err([kind |-> "message", text |-> TOKEN_REQUIRED]))
          /\ client = "none"
          /\ \A i \in 1..Len(SuppliedTokens) :
                (SuppliedTokens[i].t = "string" /\ SuppliedTokens[i].s # S_empty)
                    => ~Contains(exit.v.err.text, SuppliedTokens[i].s)
    /\ client # "none" => MainResolved /\ result.v.val.discord_token # S_empty

\* C9 witness: the file supplies a token, --discord-token "" outranks it, and
\* main has returned the token-required error with no client built.
TokenCheckWitness ==
    /\ pc = "exit"
    /\ Len(SuppliedTokens) = 2
    /\ SuppliedTokens[1] = VStr(S_file_token)
    /\ args.discord_token = Some(S_empty)
    /\ exit = Some(Err([kind |-> "message", text |-> TOKEN_REQUIRED]))
    /\ client = "none"

\* C10: logging is initialized once, only after resolution has succeeded and
\* before any record is emitted, with the resolved log_level as its filter.
LoggingAfterResolution ==
    /\ logging.inits <= 1
    /\ Len(log) > 0 => logging.inits = 1
    /\ logging.inits > 0 =>
          /\ MainResolved
          /\ logging.filter = Some(result.v.val.log_level)

====
